---------------------------- MODULE Spec2Model ----------------------------
(***************************************************************************)
(* Model of the D3D11 blend state object of src/d3d11/d3d11_blend.cpp:     *)
(* the enum decoding tables (DecodeBlendFactor, DecodeBlendOp), the        *)
(* per-target decoding (DecodeBlendMode), the constructor's "independent   *)
(* blend disabled" replication rule, GetDesc, and BindToContext, which is  *)
(* run step by step by several context threads against the one shared      *)
(* object.                                                                 *)
(*                                                                         *)
(* Source enumerants (D3D11_BLEND, D3D11_BLEND_OP) are integers, so that   *)
(* values outside the declared enumerators exist; their numeric values are *)
(* those of the D3D11 API headers.  Native enumerants (VkBlendFactor,      *)
(* VkBlendOp) are only ever compared with each other and are modelled by   *)
(* their names.                                                            *)
(***************************************************************************)
EXTENDS Integers, Sequences, FiniteSets

(***************************************************************************)
(* Bounds of the model.                                                    *)
(***************************************************************************)
\* Number of context threads that bind the shared object.
NumThreads == 2
\* Raw D3D11_BLEND values handed to DecodeBlendFactor range over 0..MaxFactorValue.
MaxFactorValue == 21
\* Raw D3D11_BLEND_OP values handed to DecodeBlendOp range over 0..MaxOpValue.
MaxOpValue == 7
\* Direct calls of the mapping functions stop once the log holds this many lines.
MaxLogLen == 2

(***************************************************************************)
(* Program constants.                                                      *)
(***************************************************************************)
\* Length of m_blendModes and of D3D11_BLEND_DESC::RenderTarget.
NumTargets == 8

D3D11_BLEND_ZERO == 1
D3D11_BLEND_ONE == 2
D3D11_BLEND_SRC_COLOR == 3
D3D11_BLEND_INV_SRC_COLOR == 4
D3D11_BLEND_SRC_ALPHA == 5
D3D11_BLEND_INV_SRC_ALPHA == 6
D3D11_BLEND_DEST_ALPHA == 7
D3D11_BLEND_INV_DEST_ALPHA == 8
D3D11_BLEND_DEST_COLOR == 9
D3D11_BLEND_INV_DEST_COLOR == 10
D3D11_BLEND_SRC_ALPHA_SAT == 11
D3D11_BLEND_BLEND_FACTOR == 14
D3D11_BLEND_INV_BLEND_FACTOR == 15
D3D11_BLEND_SRC1_COLOR == 16
D3D11_BLEND_INV_SRC1_COLOR == 17
D3D11_BLEND_SRC1_ALPHA == 18
D3D11_BLEND_INV_SRC1_ALPHA == 19

D3D11_BLEND_OP_ADD == 1
D3D11_BLEND_OP_SUBTRACT == 2
D3D11_BLEND_OP_REV_SUBTRACT == 3
D3D11_BLEND_OP_MIN == 4
D3D11_BLEND_OP_MAX == 5

VK_BLEND_FACTOR_ZERO == "VK_BLEND_FACTOR_ZERO"
VK_BLEND_FACTOR_ONE == "VK_BLEND_FACTOR_ONE"
VK_BLEND_FACTOR_SRC_COLOR == "VK_BLEND_FACTOR_SRC_COLOR"
VK_BLEND_FACTOR_ONE_MINUS_SRC_COLOR == "VK_BLEND_FACTOR_ONE_MINUS_SRC_COLOR"
VK_BLEND_FACTOR_SRC_ALPHA == "VK_BLEND_FACTOR_SRC_ALPHA"
VK_BLEND_FACTOR_ONE_MINUS_SRC_ALPHA == "VK_BLEND_FACTOR_ONE_MINUS_SRC_ALPHA"
VK_BLEND_FACTOR_DST_ALPHA == "VK_BLEND_FACTOR_DST_ALPHA"
VK_BLEND_FACTOR_ONE_MINUS_DST_ALPHA == "VK_BLEND_FACTOR_ONE_MINUS_DST_ALPHA"
VK_BLEND_FACTOR_DST_COLOR == "VK_BLEND_FACTOR_DST_COLOR"
VK_BLEND_FACTOR_ONE_MINUS_DST_COLOR == "VK_BLEND_FACTOR_ONE_MINUS_DST_COLOR"
VK_BLEND_FACTOR_SRC_ALPHA_SATURATE == "VK_BLEND_FACTOR_SRC_ALPHA_SATURATE"
VK_BLEND_FACTOR_CONSTANT_COLOR == "VK_BLEND_FACTOR_CONSTANT_COLOR"
VK_BLEND_FACTOR_CONSTANT_ALPHA == "VK_BLEND_FACTOR_CONSTANT_ALPHA"
VK_BLEND_FACTOR_ONE_MINUS_CONSTANT_COLOR == "VK_BLEND_FACTOR_ONE_MINUS_CONSTANT_COLOR"
VK_BLEND_FACTOR_ONE_MINUS_CONSTANT_ALPHA == "VK_BLEND_FACTOR_ONE_MINUS_CONSTANT_ALPHA"
VK_BLEND_FACTOR_SRC1_COLOR == "VK_BLEND_FACTOR_SRC1_COLOR"
VK_BLEND_FACTOR_ONE_MINUS_SRC1_COLOR == "VK_BLEND_FACTOR_ONE_MINUS_SRC1_COLOR"
VK_BLEND_FACTOR_SRC1_ALPHA == "VK_BLEND_FACTOR_SRC1_ALPHA"
VK_BLEND_FACTOR_ONE_MINUS_SRC1_ALPHA == "VK_BLEND_FACTOR_ONE_MINUS_SRC1_ALPHA"

VK_BLEND_OP_ADD == "VK_BLEND_OP_ADD"
VK_BLEND_OP_SUBTRACT == "VK_BLEND_OP_SUBTRACT"
VK_BLEND_OP_REVERSE_SUBTRACT == "VK_BLEND_OP_REVERSE_SUBTRACT"
VK_BLEND_OP_MIN == "VK_BLEND_OP_MIN"
VK_BLEND_OP_MAX == "VK_BLEND_OP_MAX"

\* The enumerators of D3D11_BLEND and D3D11_BLEND_OP: the case labels of the
\* two switches.
LegalBlendFactors ==
  { D3D11_BLEND_ZERO, D3D11_BLEND_ONE, D3D11_BLEND_SRC_COLOR,
    D3D11_BLEND_INV_SRC_COLOR, D3D11_BLEND_SRC_ALPHA, D3D11_BLEND_INV_SRC_ALPHA,
    D3D11_BLEND_DEST_ALPHA, D3D11_BLEND_INV_DEST_ALPHA, D3D11_BLEND_DEST_COLOR,
    D3D11_BLEND_INV_DEST_COLOR, D3D11_BLEND_SRC_ALPHA_SAT, D3D11_BLEND_BLEND_FACTOR,
    D3D11_BLEND_INV_BLEND_FACTOR, D3D11_BLEND_SRC1_COLOR, D3D11_BLEND_INV_SRC1_COLOR,
    D3D11_BLEND_SRC1_ALPHA, D3D11_BLEND_INV_SRC1_ALPHA }

LegalBlendOps ==
  { D3D11_BLEND_OP_ADD, D3D11_BLEND_OP_SUBTRACT, D3D11_BLEND_OP_REV_SUBTRACT,
    D3D11_BLEND_OP_MIN, D3D11_BLEND_OP_MAX }

Slots == 0 .. (NumTargets - 1)
Threads == 1 .. NumThreads
FactorValues == 0 .. MaxFactorValue
OpValues == 0 .. MaxOpValue

(***************************************************************************)
(* The enum mapping tables.  A call returns its value in ret and the lines *)
(* it hands to Logger::err, in order, in diag.                             *)
(***************************************************************************)
\* Mutant: the BLEND_FACTOR cases ignore isAlpha and always give the colour form.
DecodeBlendFactorIgnoresAlpha(blendFactor, isAlpha) ==
  CASE blendFactor = D3D11_BLEND_ZERO -> [ret |-> VK_BLEND_FACTOR_ZERO, diag |-> <<>>]
    [] blendFactor = D3D11_BLEND_ONE -> [ret |-> VK_BLEND_FACTOR_ONE, diag |-> <<>>]
    [] blendFactor = D3D11_BLEND_SRC_COLOR -> [ret |-> VK_BLEND_FACTOR_SRC_COLOR, diag |-> <<>>]
    [] blendFactor = D3D11_BLEND_INV_SRC_COLOR -> [ret |-> VK_BLEND_FACTOR_ONE_MINUS_SRC_COLOR, diag |-> <<>>]
    [] blendFactor = D3D11_BLEND_SRC_ALPHA -> [ret |-> VK_BLEND_FACTOR_SRC_ALPHA, diag |-> <<>>]
    [] blendFactor = D3D11_BLEND_INV_SRC_ALPHA -> [ret |-> VK_BLEND_FACTOR_ONE_MINUS_SRC_ALPHA, diag |-> <<>>]
    [] blendFactor = D3D11_BLEND_DEST_ALPHA -> [ret |-> VK_BLEND_FACTOR_DST_ALPHA, diag |-> <<>>]
    [] blendFactor = D3D11_BLEND_INV_DEST_ALPHA -> [ret |-> VK_BLEND_FACTOR_ONE_MINUS_DST_ALPHA, diag |-> <<>>]
    [] blendFactor = D3D11_BLEND_DEST_COLOR -> [ret |-> VK_BLEND_FACTOR_DST_COLOR, diag |-> <<>>]
    [] blendFactor = D3D11_BLEND_INV_DEST_COLOR -> [ret |-> VK_BLEND_FACTOR_ONE_MINUS_DST_COLOR, diag |-> <<>>]
    [] blendFactor = D3D11_BLEND_SRC_ALPHA_SAT -> [ret |-> VK_BLEND_FACTOR_SRC_ALPHA_SATURATE, diag |-> <<>>]
    [] blendFactor = D3D11_BLEND_BLEND_FACTOR -> [ret |-> VK_BLEND_FACTOR_CONSTANT_COLOR, diag |-> <<>>]
    [] blendFactor = D3D11_BLEND_INV_BLEND_FACTOR -> [ret |-> VK_BLEND_FACTOR_ONE_MINUS_CONSTANT_COLOR, diag |-> <<>>]
    [] blendFactor = D3D11_BLEND_SRC1_COLOR -> [ret |-> VK_BLEND_FACTOR_SRC1_COLOR, diag |-> <<>>]
    [] blendFactor = D3D11_BLEND_INV_SRC1_COLOR -> [ret |-> VK_BLEND_FACTOR_ONE_MINUS_SRC1_COLOR, diag |-> <<>>]
    [] blendFactor = D3D11_BLEND_SRC1_ALPHA -> [ret |-> VK_BLEND_FACTOR_SRC1_ALPHA, diag |-> <<>>]
    [] blendFactor = D3D11_BLEND_INV_SRC1_ALPHA -> [ret |-> VK_BLEND_FACTOR_ONE_MINUS_SRC1_ALPHA, diag |-> <<>>]
    [] OTHER -> [ret |-> VK_BLEND_FACTOR_ZERO,
                 diag |-> << [text |-> "D3D11: Invalid blend factor: ", value |-> blendFactor] >>]

\* Mutant: the case label of D3D11_BLEND_SRC_ALPHA_SAT is missing, so that
\* enumerator falls through to the invalid-value path.
DecodeBlendFactorMissingCase(blendFactor, isAlpha) ==
  CASE blendFactor = D3D11_BLEND_ZERO -> [ret |-> VK_BLEND_FACTOR_ZERO, diag |-> <<>>]
    [] blendFactor = D3D11_BLEND_ONE -> [ret |-> VK_BLEND_FACTOR_ONE, diag |-> <<>>]
    [] blendFactor = D3D11_BLEND_SRC_COLOR -> [ret |-> VK_BLEND_FACTOR_SRC_COLOR, diag |-> <<>>]
    [] blendFactor = D3D11_BLEND_INV_SRC_COLOR -> [ret |-> VK_BLEND_FACTOR_ONE_MINUS_SRC_COLOR, diag |-> <<>>]
    [] blendFactor = D3D11_BLEND_SRC_ALPHA -> [ret |-> VK_BLEND_FACTOR_SRC_ALPHA, diag |-> <<>>]
    [] blendFactor = D3D11_BLEND_INV_SRC_ALPHA -> [ret |-> VK_BLEND_FACTOR_ONE_MINUS_SRC_ALPHA, diag |-> <<>>]
    [] blendFactor = D3D11_BLEND_DEST_ALPHA -> [ret |-> VK_BLEND_FACTOR_DST_ALPHA, diag |-> <<>>]
    [] blendFactor = D3D11_BLEND_INV_DEST_ALPHA -> [ret |-> VK_BLEND_FACTOR_ONE_MINUS_DST_ALPHA, diag |-> <<>>]
    [] blendFactor = D3D11_BLEND_DEST_COLOR -> [ret |-> VK_BLEND_FACTOR_DST_COLOR, diag |-> <<>>]
    [] blendFactor = D3D11_BLEND_INV_DEST_COLOR -> [ret |-> VK_BLEND_FACTOR_ONE_MINUS_DST_COLOR, diag |-> <<>>]
    [] blendFactor = D3D11_BLEND_BLEND_FACTOR ->
         [ret |-> IF isAlpha THEN VK_BLEND_FACTOR_CONSTANT_ALPHA
                             ELSE VK_BLEND_FACTOR_CONSTANT_COLOR, diag |-> <<>>]
    [] blendFactor = D3D11_BLEND_INV_BLEND_FACTOR ->
         [ret |-> IF isAlpha THEN VK_BLEND_FACTOR_ONE_MINUS_CONSTANT_ALPHA
                             ELSE VK_BLEND_FACTOR_ONE_MINUS_CONSTANT_COLOR, diag |-> <<>>]
    [] blendFactor = D3D11_BLEND_SRC1_COLOR -> [ret |-> VK_BLEND_FACTOR_SRC1_COLOR, diag |-> <<>>]
    [] blendFactor = D3D11_BLEND_INV_SRC1_COLOR -> [ret |-> VK_BLEND_FACTOR_ONE_MINUS_SRC1_COLOR, diag |-> <<>>]
    [] blendFactor = D3D11_BLEND_SRC1_ALPHA -> [ret |-> VK_BLEND_FACTOR_SRC1_ALPHA, diag |-> <<>>]
    [] blendFactor = D3D11_BLEND_INV_SRC1_ALPHA -> [ret |-> VK_BLEND_FACTOR_ONE_MINUS_SRC1_ALPHA, diag |-> <<>>]
    [] OTHER -> [ret |-> VK_BLEND_FACTOR_ZERO,
                 diag |-> << [text |-> "D3D11: Invalid blend factor: ", value |-> blendFactor] >>]

\* D3D11BlendState::DecodeBlendFactor
DecodeBlendFactor(blendFactor, isAlpha) ==
  CASE blendFactor = D3D11_BLEND_ZERO -> [ret |-> VK_BLEND_FACTOR_ZERO, diag |-> <<>>]
    [] blendFactor = D3D11_BLEND_ONE -> [ret |-> VK_BLEND_FACTOR_ONE, diag |-> <<>>]
    [] blendFactor = D3D11_BLEND_SRC_COLOR -> [ret |-> VK_BLEND_FACTOR_SRC_COLOR, diag |-> <<>>]
    [] blendFactor = D3D11_BLEND_INV_SRC_COLOR -> [ret |-> VK_BLEND_FACTOR_ONE_MINUS_SRC_COLOR, diag |-> <<>>]
    [] blendFactor = D3D11_BLEND_SRC_ALPHA -> [ret |-> VK_BLEND_FACTOR_SRC_ALPHA, diag |-> <<>>]
    [] blendFactor = D3D11_BLEND_INV_SRC_ALPHA -> [ret |-> VK_BLEND_FACTOR_ONE_MINUS_SRC_ALPHA, diag |-> <<>>]
    [] blendFactor = D3D11_BLEND_DEST_ALPHA -> [ret |-> VK_BLEND_FACTOR_DST_ALPHA, diag |-> <<>>]
    [] blendFactor = D3D11_BLEND_INV_DEST_ALPHA -> [ret |-> VK_BLEND_FACTOR_ONE_MINUS_DST_ALPHA, diag |-> <<>>]
    [] blendFactor = D3D11_BLEND_DEST_COLOR -> [ret |-> VK_BLEND_FACTOR_DST_COLOR, diag |-> <<>>]
    [] blendFactor = D3D11_BLEND_INV_DEST_COLOR -> [ret |-> VK_BLEND_FACTOR_ONE_MINUS_DST_COLOR, diag |-> <<>>]
    [] blendFactor = D3D11_BLEND_SRC_ALPHA_SAT -> [ret |-> VK_BLEND_FACTOR_SRC_ALPHA_SATURATE, diag |-> <<>>]
    [] blendFactor = D3D11_BLEND_BLEND_FACTOR ->
         [ret |-> IF isAlpha THEN VK_BLEND_FACTOR_CONSTANT_ALPHA
                             ELSE VK_BLEND_FACTOR_CONSTANT_COLOR, diag |-> <<>>]
    [] blendFactor = D3D11_BLEND_INV_BLEND_FACTOR ->
         [ret |-> IF isAlpha THEN VK_BLEND_FACTOR_ONE_MINUS_CONSTANT_ALPHA
                             ELSE VK_BLEND_FACTOR_ONE_MINUS_CONSTANT_COLOR, diag |-> <<>>]
    [] blendFactor = D3D11_BLEND_SRC1_COLOR -> [ret |-> VK_BLEND_FACTOR_SRC1_COLOR, diag |-> <<>>]
    [] blendFactor = D3D11_BLEND_INV_SRC1_COLOR -> [ret |-> VK_BLEND_FACTOR_ONE_MINUS_SRC1_COLOR, diag |-> <<>>]
    [] blendFactor = D3D11_BLEND_SRC1_ALPHA -> [ret |-> VK_BLEND_FACTOR_SRC1_ALPHA, diag |-> <<>>]
    [] blendFactor = D3D11_BLEND_INV_SRC1_ALPHA -> [ret |-> VK_BLEND_FACTOR_ONE_MINUS_SRC1_ALPHA, diag |-> <<>>]
    [] OTHER -> [ret |-> VK_BLEND_FACTOR_ZERO,
                 diag |-> << [text |-> "D3D11: Invalid blend factor: ", value |-> blendFactor] >>]

\* Mutant: the invalid-value path returns the default without logging.
DecodeBlendOpSilent(blendOp) ==
  CASE blendOp = D3D11_BLEND_OP_ADD -> [ret |-> VK_BLEND_OP_ADD, diag |-> <<>>]
    [] blendOp = D3D11_BLEND_OP_SUBTRACT -> [ret |-> VK_BLEND_OP_SUBTRACT, diag |-> <<>>]
    [] blendOp = D3D11_BLEND_OP_REV_SUBTRACT -> [ret |-> VK_BLEND_OP_REVERSE_SUBTRACT, diag |-> <<>>]
    [] blendOp = D3D11_BLEND_OP_MIN -> [ret |-> VK_BLEND_OP_MIN, diag |-> <<>>]
    [] blendOp = D3D11_BLEND_OP_MAX -> [ret |-> VK_BLEND_OP_MAX, diag |-> <<>>]
    [] OTHER -> [ret |-> VK_BLEND_OP_ADD, diag |-> <<>>]

\* D3D11BlendState::DecodeBlendOp
DecodeBlendOp(blendOp) ==
  CASE blendOp = D3D11_BLEND_OP_ADD -> [ret |-> VK_BLEND_OP_ADD, diag |-> <<>>]
    [] blendOp = D3D11_BLEND_OP_SUBTRACT -> [ret |-> VK_BLEND_OP_SUBTRACT, diag |-> <<>>]
    [] blendOp = D3D11_BLEND_OP_REV_SUBTRACT -> [ret |-> VK_BLEND_OP_REVERSE_SUBTRACT, diag |-> <<>>]
    [] blendOp = D3D11_BLEND_OP_MIN -> [ret |-> VK_BLEND_OP_MIN, diag |-> <<>>]
    [] blendOp = D3D11_BLEND_OP_MAX -> [ret |-> VK_BLEND_OP_MAX, diag |-> <<>>]
    [] OTHER -> [ret |-> VK_BLEND_OP_ADD,
                 diag |-> << [text |-> "D3D11: Invalid blend op: ", value |-> blendOp] >>]

\* D3D11BlendState::DecodeBlendMode: the six decoding calls run in statement
\* order, so their diagnostics are logged in that order.
DecodeBlendMode(blendDesc) ==
  LET colorSrc == DecodeBlendFactor(blendDesc.SrcBlend, FALSE)
      colorDst == DecodeBlendFactor(blendDesc.DestBlend, FALSE)
      colorOp  == DecodeBlendOp(blendDesc.BlendOp)
      alphaSrc == DecodeBlendFactor(blendDesc.SrcBlendAlpha, TRUE)
      alphaDst == DecodeBlendFactor(blendDesc.DestBlendAlpha, TRUE)
      alphaOp  == DecodeBlendOp(blendDesc.BlendOpAlpha)
  IN  [ mode |-> [ enableBlending |-> blendDesc.BlendEnable,
                   colorSrcFactor |-> colorSrc.ret,
                   colorDstFactor |-> colorDst.ret,
                   colorBlendOp   |-> colorOp.ret,
                   alphaSrcFactor |-> alphaSrc.ret,
                   alphaDstFactor |-> alphaDst.ret,
                   alphaBlendOp   |-> alphaOp.ret,
                   writeMask      |-> blendDesc.RenderTargetWriteMask ],
        diag |-> colorSrc.diag \o colorDst.diag \o colorOp.diag
                   \o alphaSrc.diag \o alphaDst.diag \o alphaOp.diag ]


(***************************************************************************)
(* Construction.                                                           *)
(***************************************************************************)
\* Mutant: the replication rule is dropped, every slot decodes its own record.
EffectiveTargetAlwaysOwn(desc, i) == desc.RenderTarget[i]

\* Mutant: every slot decodes render target 0, independent blend or not.
EffectiveTargetAlwaysFirst(desc, i) == desc.RenderTarget[0]

\* The argument of DecodeBlendMode in the constructor's loop:
\* desc.IndependentBlendEnable ? desc.RenderTarget[i] : desc.RenderTarget[0]
EffectiveTarget(desc, i) ==
  IF desc.IndependentBlendEnable THEN desc.RenderTarget[i] ELSE desc.RenderTarget[0]

\* The lines logged by the first n iterations of the constructor's loop.
RECURSIVE DecodeLoopDiag(_, _)
DecodeLoopDiag(desc, n) ==
  IF n = 0 THEN <<>>
  ELSE DecodeLoopDiag(desc, n - 1) \o DecodeBlendMode(EffectiveTarget(desc, n - 1)).diag

\* m_msState as the constructor fills it in.
InitialMsState(desc) ==
  [ sampleMask            |-> 0,
    enableAlphaToCoverage |-> desc.AlphaToCoverageEnable,
    enableAlphaToOne      |-> FALSE,
    enableSampleShading   |-> FALSE,
    minSampleShading      |-> 0 ]

\* Mutant: with independent blend disabled the constructor decodes render
\* target 0 once, before the loop, and copies the result into the 8 slots.
D3D11BlendStateDecodeOnce(desc) ==
  [ m_desc       |-> desc,
    m_blendModes |-> [i \in Slots |-> DecodeBlendMode(EffectiveTarget(desc, i)).mode],
    m_msState    |-> InitialMsState(desc),
    diag         |-> IF desc.IndependentBlendEnable
                       THEN DecodeLoopDiag(desc, NumTargets)
                       ELSE DecodeBlendMode(desc.RenderTarget[0]).diag ]

\* Mutant: the constructor retains the descriptor it resolved (render target 0
\* replicated when independent blend is disabled) instead of its argument.
D3D11BlendStateKeepsResolved(desc) ==
  [ m_desc       |-> [desc EXCEPT !.RenderTarget =
                        [i \in Slots |-> EffectiveTarget(desc, i)]],
    m_blendModes |-> [i \in Slots |-> DecodeBlendMode(EffectiveTarget(desc, i)).mode],
    m_msState    |-> InitialMsState(desc),
    diag         |-> DecodeLoopDiag(desc, NumTargets) ]

\* D3D11BlendState::D3D11BlendState: the members after construction, and the
\* lines logged on the way.
D3D11BlendState(desc) ==
  [ m_desc       |-> desc,
    m_blendModes |-> [i \in Slots |-> DecodeBlendMode(EffectiveTarget(desc, i)).mode],
    m_msState    |-> InitialMsState(desc),
    diag         |-> DecodeLoopDiag(desc, NumTargets) ]

(***************************************************************************)
(* Inputs.                                                                 *)
(***************************************************************************)
\* The blend of the usual "source over" alpha blending.
RtSourceOver ==
  [ BlendEnable |-> TRUE,
    SrcBlend |-> D3D11_BLEND_SRC_ALPHA, DestBlend |-> D3D11_BLEND_INV_SRC_ALPHA,
    BlendOp |-> D3D11_BLEND_OP_ADD,
    SrcBlendAlpha |-> D3D11_BLEND_ONE, DestBlendAlpha |-> D3D11_BLEND_ZERO,
    BlendOpAlpha |-> D3D11_BLEND_OP_ADD,
    RenderTargetWriteMask |-> 15 ]

\* Constant blend factors in the colour and in the alpha channel, blending off.
RtConstant ==
  [ BlendEnable |-> FALSE,
    SrcBlend |-> D3D11_BLEND_BLEND_FACTOR, DestBlend |-> D3D11_BLEND_INV_BLEND_FACTOR,
    BlendOp |-> D3D11_BLEND_OP_REV_SUBTRACT,
    SrcBlendAlpha |-> D3D11_BLEND_BLEND_FACTOR, DestBlendAlpha |-> D3D11_BLEND_INV_BLEND_FACTOR,
    BlendOpAlpha |-> D3D11_BLEND_OP_MAX,
    RenderTargetWriteMask |-> 7 ]

\* Two factors and both ops outside the enumerators (12 and 20 are no
\* D3D11_BLEND, 0 and 6 are no D3D11_BLEND_OP).
RtInvalid ==
  [ BlendEnable |-> TRUE,
    SrcBlend |-> 12, DestBlend |-> D3D11_BLEND_ONE,
    BlendOp |-> 0,
    SrcBlendAlpha |-> 20, DestBlendAlpha |-> D3D11_BLEND_DEST_ALPHA,
    BlendOpAlpha |-> 6,
    RenderTargetWriteMask |-> 0 ]

TargetRecs == { RtSourceOver, RtConstant, RtInvalid }

\* A D3D11_BLEND_DESC: record a in slot 0, record b in slot k, RtSourceOver elsewhere.
MakeDesc(independent, alphaToCoverage, a, k, b) ==
  [ AlphaToCoverageEnable  |-> alphaToCoverage,
    IndependentBlendEnable |-> independent,
    RenderTarget |-> [i \in Slots |-> IF i = 0 THEN a ELSE IF i = k THEN b ELSE RtSourceOver] ]

\* The slots other than 0 whose record varies.
VarySlots == { 1, NumTargets - 1 }

\* The descriptors objects are constructed from when only construction and
\* GetDesc are explored.
Descs ==
  { MakeDesc(ind, a2c, a, k, b) :
      ind \in BOOLEAN, a2c \in BOOLEAN, a \in TargetRecs, k \in VarySlots, b \in TargetRecs }

\* The descriptors objects are constructed from when binds are explored too.
BindDescs ==
  { MakeDesc(ind, c[1], c[2], NumTargets - 1, c[3]) :
      ind \in BOOLEAN,
      c \in { <<TRUE, RtSourceOver, RtInvalid>>,
              <<FALSE, RtInvalid, RtConstant>>,
              <<TRUE, RtConstant, RtSourceOver>> } }

\* The dynamic sample masks (uint32_t) binds are called with: no sample, and
\* 0x7FFFFFFF.  The mask is copied, never computed with.
SampleMasks == { 0, 2147483647 }

(***************************************************************************)
(* State.                                                                  *)
(***************************************************************************)
VARIABLES
  constructed,   \* whether the object exists
  m_desc,        \* D3D11BlendState::m_desc
  m_blendModes,  \* D3D11BlendState::m_blendModes
  m_msState,     \* D3D11BlendState::m_msState
  log,           \* the lines handed to Logger::err so far
  ctorDesc,      \* history: the descriptor the constructor was given
  snapshot,      \* history: the members right after construction
  pDesc,         \* the out parameter of GetDesc: {} before the first call
  mapCall,       \* the latest direct call of a mapping function: {} before
  pc,            \* per thread: position in BindToContext
  idx,           \* per thread: the loop variable i of BindToContext
  sampleMask,    \* per thread: the sampleMask argument of its latest bind
  msState,       \* per thread: the local msState of BindToContext
  calls          \* per thread: the calls its context received from its latest bind

objVars == <<constructed, m_desc, m_blendModes, m_msState, ctorDesc, snapshot>>
bindVars == <<pc, idx, sampleMask, msState, calls>>
vars == <<constructed, m_desc, m_blendModes, m_msState, log, ctorDesc, snapshot,
          pDesc, mapCall, pc, idx, sampleMask, msState, calls>>

\* The members of the object, as one value.
Members == [ m_desc |-> m_desc, m_blendModes |-> m_blendModes, m_msState |-> m_msState ]

\* Memory before the constructor has run.
ZeroTarget ==
  [ BlendEnable |-> FALSE, SrcBlend |-> 0, DestBlend |-> 0, BlendOp |-> 0,
    SrcBlendAlpha |-> 0, DestBlendAlpha |-> 0, BlendOpAlpha |-> 0,
    RenderTargetWriteMask |-> 0 ]

ZeroDesc ==
  [ AlphaToCoverageEnable |-> FALSE, IndependentBlendEnable |-> FALSE,
    RenderTarget |-> [i \in Slots |-> ZeroTarget] ]

ZeroMode ==
  [ enableBlending |-> FALSE,
    colorSrcFactor |-> VK_BLEND_FACTOR_ZERO, colorDstFactor |-> VK_BLEND_FACTOR_ZERO,
    colorBlendOp |-> VK_BLEND_OP_ADD,
    alphaSrcFactor |-> VK_BLEND_FACTOR_ZERO, alphaDstFactor |-> VK_BLEND_FACTOR_ZERO,
    alphaBlendOp |-> VK_BLEND_OP_ADD,
    writeMask |-> 0 ]

ZeroMsState ==
  [ sampleMask |-> 0, enableAlphaToCoverage |-> FALSE, enableAlphaToOne |-> FALSE,
    enableSampleShading |-> FALSE, minSampleShading |-> 0 ]

Init ==
  /\ constructed = FALSE
  /\ m_desc = ZeroDesc
  /\ m_blendModes = [i \in Slots |-> ZeroMode]
  /\ m_msState = ZeroMsState
  /\ log = <<>>
  /\ ctorDesc = ZeroDesc
  /\ snapshot = [ m_desc |-> ZeroDesc, m_blendModes |-> [i \in Slots |-> ZeroMode],
                  m_msState |-> ZeroMsState ]
  /\ pDesc = {}
  /\ mapCall = {}
  /\ pc = [t \in Threads |-> "idle"]
  /\ idx = [t \in Threads |-> 0]
  /\ sampleMask = [t \in Threads |-> 0]
  /\ msState = [t \in Threads |-> ZeroMsState]
  /\ calls = [t \in Threads |-> <<>>]

(***************************************************************************)
(* Operations.                                                             *)
(***************************************************************************)
\* new D3D11BlendState(device, desc)
Construct(desc) ==
  /\ ~constructed
  /\ LET o == D3D11BlendState(desc)
     IN  /\ constructed' = TRUE
         /\ m_desc' = o.m_desc
         /\ m_blendModes' = o.m_blendModes
         /\ m_msState' = o.m_msState
         /\ log' = log \o o.diag
         /\ ctorDesc' = desc
         /\ snapshot' = [ m_desc |-> o.m_desc, m_blendModes |-> o.m_blendModes,
                          m_msState |-> o.m_msState ]
  /\ UNCHANGED <<pDesc, mapCall, bindVars>>

\* D3D11BlendState::GetDesc: *pDesc = m_desc
GetDesc ==
  /\ constructed
  /\ pDesc' = { m_desc }
  /\ UNCHANGED <<objVars, log, mapCall, bindVars>>

\* Thread t enters BindToContext(ctx, mask); its context starts a fresh record
\* of the calls it receives.
BindToContext(t, mask) ==
  /\ constructed
  /\ pc[t] = "idle"
  /\ pc' = [pc EXCEPT ![t] = "blend"]
  /\ idx' = [idx EXCEPT ![t] = 0]
  /\ sampleMask' = [sampleMask EXCEPT ![t] = mask]
  /\ calls' = [calls EXCEPT ![t] = <<>>]
  /\ UNCHANGED <<objVars, log, pDesc, mapCall, msState>>

\* Mutant: the loop stops one slot early (i + 1 < size).
BindSetBlendModeStopsEarly(t) ==
  /\ pc[t] = "blend"
  /\ IF idx[t] + 1 < NumTargets
       THEN /\ calls' = [calls EXCEPT ![t] =
                 Append(@, [call |-> "setBlendMode", args |-> <<idx[t], m_blendModes[idx[t]]>>])]
            /\ idx' = [idx EXCEPT ![t] = @ + 1]
            /\ UNCHANGED <<pc, msState>>
       ELSE /\ msState' = [msState EXCEPT ![t] = m_msState]
            /\ pc' = [pc EXCEPT ![t] = "mask"]
            /\ UNCHANGED <<idx, calls>>
  /\ UNCHANGED <<objVars, log, pDesc, mapCall, sampleMask>>

\* One turn of the loop of BindToContext: while i < m_blendModes.size(),
\* ctx->setBlendMode(i, m_blendModes.at(i)) and i++; past the loop, the copy
\* DxvkMultisampleState msState = m_msState.
BindSetBlendMode(t) ==
  /\ pc[t] = "blend"
  /\ IF idx[t] < NumTargets
       THEN /\ calls' = [calls EXCEPT ![t] =
                 Append(@, [call |-> "setBlendMode", args |-> <<idx[t], m_blendModes[idx[t]]>>])]
            /\ idx' = [idx EXCEPT ![t] = @ + 1]
            /\ UNCHANGED <<pc, msState>>
       ELSE /\ msState' = [msState EXCEPT ![t] = m_msState]
            /\ pc' = [pc EXCEPT ![t] = "mask"]
            /\ UNCHANGED <<idx, calls>>
  /\ UNCHANGED <<objVars, log, pDesc, mapCall, sampleMask>>

\* Mutant: the mask is written into the member m_msState, not into the copy.
BindSetSampleMaskInMember(t) ==
  /\ pc[t] = "mask"
  /\ m_msState' = [m_msState EXCEPT !.sampleMask = sampleMask[t]]
  /\ pc' = [pc EXCEPT ![t] = "setms"]
  /\ UNCHANGED <<constructed, m_desc, m_blendModes, ctorDesc, snapshot,
                 log, pDesc, mapCall, idx, sampleMask, msState, calls>>

\* msState.sampleMask = sampleMask
BindSetSampleMask(t) ==
  /\ pc[t] = "mask"
  /\ msState' = [msState EXCEPT ![t] = [@ EXCEPT !.sampleMask = sampleMask[t]]]
  /\ pc' = [pc EXCEPT ![t] = "setms"]
  /\ UNCHANGED <<objVars, log, pDesc, mapCall, idx, sampleMask, calls>>

\* Mutant: the call passes the member m_msState instead of the merged copy.
BindSetMultisampleStatePassesMember(t) ==
  /\ pc[t] = "setms"
  /\ calls' = [calls EXCEPT ![t] =
       Append(@, [call |-> "setMultisampleState", args |-> <<m_msState>>])]
  /\ pc' = [pc EXCEPT ![t] = "idle"]
  /\ idx' = [idx EXCEPT ![t] = 0]
  /\ msState' = [msState EXCEPT ![t] = ZeroMsState]
  /\ UNCHANGED <<objVars, log, pDesc, mapCall, sampleMask>>

\* ctx->setMultisampleState(msState), and the return: the locals are gone.
BindSetMultisampleState(t) ==
  /\ pc[t] = "setms"
  /\ calls' = [calls EXCEPT ![t] =
       Append(@, [call |-> "setMultisampleState", args |-> <<msState[t]>>])]
  /\ pc' = [pc EXCEPT ![t] = "idle"]
  /\ idx' = [idx EXCEPT ![t] = 0]
  /\ msState' = [msState EXCEPT ![t] = ZeroMsState]
  /\ UNCHANGED <<objVars, log, pDesc, mapCall, sampleMask>>

\* A direct call DecodeBlendFactor(blendFactor, isAlpha).
CallDecodeBlendFactor(blendFactor, isAlpha) ==
  /\ Len(log) < MaxLogLen
  /\ LET r == DecodeBlendFactor(blendFactor, isAlpha)
     IN  /\ log' = log \o r.diag
         /\ mapCall' = { [ fn |-> "DecodeBlendFactor", value |-> blendFactor,
                           isAlpha |-> isAlpha, ret |-> r.ret, logBefore |-> log ] }
  /\ UNCHANGED <<objVars, pDesc, bindVars>>

\* A direct call DecodeBlendOp(blendOp).
CallDecodeBlendOp(blendOp) ==
  /\ Len(log) < MaxLogLen
  /\ LET r == DecodeBlendOp(blendOp)
     IN  /\ log' = log \o r.diag
         /\ mapCall' = { [ fn |-> "DecodeBlendOp", value |-> blendOp,
                           isAlpha |-> FALSE, ret |-> r.ret, logBefore |-> log ] }
  /\ UNCHANGED <<objVars, pDesc, bindVars>>

(***************************************************************************)
(* Specifications.                                                         *)
(***************************************************************************)
\* One object, constructed once, queried, and bound concurrently by the threads.
Next ==
  \/ \E desc \in BindDescs : Construct(desc)
  \/ GetDesc
  \/ \E t \in Threads, mask \in SampleMasks : BindToContext(t, mask)
  \/ \E t \in Threads : BindSetBlendMode(t)
  \/ \E t \in Threads : BindSetSampleMask(t)
  \/ \E t \in Threads : BindSetMultisampleState(t)

Spec == Init /\ [][Next]_vars

\* Construction and GetDesc alone, over the larger set of descriptors.
NextCtor ==
  \/ \E desc \in Descs : Construct(desc)
  \/ GetDesc

SpecCtor == Init /\ [][NextCtor]_vars

\* Direct calls of the two mapping functions.
NextMap ==
  \/ \E blendFactor \in FactorValues, isAlpha \in BOOLEAN :
       CallDecodeBlendFactor(blendFactor, isAlpha)
  \/ \E blendOp \in OpValues : CallDecodeBlendOp(blendOp)

SpecMap == Init /\ [][NextMap]_vars

(***************************************************************************)
(* Vocabulary of the properties.                                           *)
(***************************************************************************)
\* Thread t has run a bind to its end: BindToContext empties calls[t] on
\* entry, and only the return puts the thread back to "idle".
BindDone(t) == constructed /\ pc[t] = "idle" /\ calls[t] # <<>>

\* The number of factor and op fields of a render-target record that are no
\* enumerator.
InvalidFieldCount(rt) ==
  Cardinality({ f \in {"SrcBlend", "DestBlend", "SrcBlendAlpha", "DestBlendAlpha"} :
                  rt[f] \notin LegalBlendFactors })
  + Cardinality({ f \in {"BlendOp", "BlendOpAlpha"} : rt[f] \notin LegalBlendOps })

\* The sum of InvalidFieldCount over the effective records of slots 0 .. n-1.
RECURSIVE InvalidFieldSum(_, _)
InvalidFieldSum(desc, n) ==
  IF n = 0 THEN 0
  ELSE InvalidFieldSum(desc, n - 1)
         + InvalidFieldCount(IF desc.IndependentBlendEnable
                               THEN desc.RenderTarget[n - 1]
                               ELSE desc.RenderTarget[0])

\* The calls a complete bind of the object as constructed, with this mask,
\* is to issue.
ExpectedCalls(mask) ==
  [ p \in 1 .. NumTargets |->
      [call |-> "setBlendMode", args |-> <<p - 1, snapshot.m_blendModes[p - 1]>>] ]
  \o << [call |-> "setMultisampleState",
         args |-> << [snapshot.m_msState EXCEPT !.sampleMask = mask] >>] >>

(***************************************************************************)
(* Properties.                                                             *)
(***************************************************************************)
\* C1: once an object is constructed from a descriptor with
\* IndependentBlendEnable = FALSE, whatever RenderTarget[1..7] hold, its 8
\* resolved blend modes are equal to each other, in every state that follows
\* (after any binds and GetDesc calls).
C1_ReplicatedModesEqual ==
  (constructed /\ ~ctorDesc.IndependentBlendEnable)
    => \A i, j \in Slots : m_blendModes[i] = m_blendModes[j]

\* C1 witness: such an object, whose descriptor has a last render target that
\* decodes to another mode than render target 0, after a finished bind and a
\* GetDesc.
C1_Witness ==
  /\ constructed /\ ~ctorDesc.IndependentBlendEnable
  /\ DecodeBlendMode(ctorDesc.RenderTarget[NumTargets - 1]).mode
       # DecodeBlendMode(ctorDesc.RenderTarget[0]).mode
  /\ \A i \in Slots : m_blendModes[i] = m_blendModes[0]
  /\ pDesc # {}
  /\ \E t \in Threads : BindDone(t)

\* C2: for an object constructed with IndependentBlendEnable = TRUE, the
\* resolved mode of slot i is the one any other independent-blend descriptor
\* with the same RenderTarget[i] resolves to: the records of the other slots
\* have no influence on it.
C2_SlotDependsOnOwnRecordOnly ==
  (constructed /\ ctorDesc.IndependentBlendEnable)
    => \A other \in Descs : \A i \in Slots :
         (other.IndependentBlendEnable /\ other.RenderTarget[i] = ctorDesc.RenderTarget[i])
           => D3D11BlendState(other).m_blendModes[i] = m_blendModes[i]

\* C2 witness: an independent-blend object and a second independent-blend
\* descriptor that agrees with its descriptor on slot i and differs on slot 0
\* in a way that changes the mode of slot 0, slot i resolving alike in both.
C2_Witness ==
  /\ constructed /\ ctorDesc.IndependentBlendEnable
  /\ \E other \in Descs : \E i \in Slots \ {0} :
       /\ other.IndependentBlendEnable
       /\ other.RenderTarget[i] = ctorDesc.RenderTarget[i]
       /\ other.RenderTarget[i] # other.RenderTarget[0]
       /\ D3D11BlendState(other).m_blendModes[0] # m_blendModes[0]
       /\ D3D11BlendState(other).m_blendModes[i] = m_blendModes[i]

\* C3: at every point of every bind, the calls the context has received from
\* it are a prefix of: setBlendMode for the slots 0, 1, ..., 7 in this order,
\* each with the object's resolved mode of the slot, then one
\* setMultisampleState; the loop is left only after all 8 setBlendMode calls,
\* and a finished bind has issued exactly these 9 calls.
C3_BindCallSequence ==
  \A t \in Threads :
    /\ Len(calls[t]) <= NumTargets + 1
    /\ \A p \in 1 .. Len(calls[t]) :
         IF p <= NumTargets
           THEN /\ calls[t][p].call = "setBlendMode"
                /\ calls[t][p].args = <<p - 1, m_blendModes[p - 1]>>
           ELSE /\ calls[t][p].call = "setMultisampleState"
                /\ Len(calls[t][p].args) = 1
    /\ pc[t] = "blend" => Len(calls[t]) = idx[t]
    /\ pc[t] \in {"mask", "setms"} => Len(calls[t]) = NumTargets
    /\ BindDone(t) => Len(calls[t]) = NumTargets + 1

\* C3 witness: a finished bind of an object whose resolved modes are not all
\* the same.
C3_Witness ==
  \E t \in Threads :
    /\ BindDone(t)
    /\ Len(calls[t]) = NumTargets + 1
    /\ calls[t][NumTargets].args[2] # calls[t][1].args[2]
    /\ calls[t][NumTargets + 1].call = "setMultisampleState"

\* C4: binds do not change the object: in every state its descriptor, its 8
\* resolved modes and its multisample template are what they were right after
\* construction; and the multisample value a finished bind passed to
\* setMultisampleState equals the template in every field but sampleMask,
\* which is the mask that bind was called with.
C4_BindNonMutating ==
  constructed =>
    /\ Members = snapshot
    /\ \A t \in Threads :
         BindDone(t) =>
           LET ms == calls[t][Len(calls[t])].args[1]
           IN  /\ ms.sampleMask = sampleMask[t]
               /\ ms.enableAlphaToCoverage = snapshot.m_msState.enableAlphaToCoverage
               /\ ms.enableAlphaToOne = snapshot.m_msState.enableAlphaToOne
               /\ ms.enableSampleShading = snapshot.m_msState.enableSampleShading
               /\ ms.minSampleShading = snapshot.m_msState.minSampleShading

\* C4 witness: two finished binds of one object with different masks, whose
\* multisample values differ, the object having alpha-to-coverage enabled.
C4_Witness ==
  /\ constructed /\ snapshot.m_msState.enableAlphaToCoverage
  /\ \E t, u \in Threads :
       /\ BindDone(t) /\ BindDone(u)
       /\ sampleMask[t] # sampleMask[u]
       /\ calls[t][Len(calls[t])].args[1] # calls[u][Len(calls[u])].args[1]
       /\ calls[t][Len(calls[t])].args[1].sampleMask # m_msState.sampleMask

\* C5: however the steps of the threads' binds of the shared object
\* interleave, the multisample value a thread is about to pass carries that
\* thread's own mask, a finished bind has delivered to its context exactly
\* the 8 resolved modes in ascending slot order followed by the multisample
\* state with its own mask, and the shared object is as constructed.
C5_ConcurrentBindsIsolated ==
  constructed =>
    /\ Members = snapshot
    /\ \A t \in Threads :
         /\ pc[t] = "setms" =>
              msState[t] = [snapshot.m_msState EXCEPT !.sampleMask = sampleMask[t]]
         /\ BindDone(t) => calls[t] = ExpectedCalls(sampleMask[t])

\* C5 witness: two binds of the shared object overlap: one thread holds its
\* merged multisample value, all 8 modes delivered, while another thread,
\* called with a different mask, is in the middle of its loop.
C5_Witness ==
  \E t, u \in Threads :
    /\ pc[t] = "setms" /\ pc[u] = "blend" /\ idx[u] = 4
    /\ sampleMask[u] # sampleMask[t]
    /\ msState[t].sampleMask = sampleMask[t]
    /\ calls[t] = SubSeq(ExpectedCalls(sampleMask[t]), 1, NumTargets)
    /\ calls[u] = SubSeq(ExpectedCalls(sampleMask[u]), 1, 4)

\* C6 as stated: a call of a mapping function with an enumerator logs
\* nothing and returns a value other than the one of the invalid-value path
\* (VK_BLEND_FACTOR_ZERO, VK_BLEND_OP_ADD).
C6_LegalNeverReturnsDefault ==
  \A c \in mapCall :
    /\ (c.fn = "DecodeBlendFactor" /\ c.value \in LegalBlendFactors)
         => (log = c.logBefore /\ c.ret # VK_BLEND_FACTOR_ZERO)
    /\ (c.fn = "DecodeBlendOp" /\ c.value \in LegalBlendOps)
         => (log = c.logBefore /\ c.ret # VK_BLEND_OP_ADD)

\* C6 amended: a call of a mapping function with an enumerator logs nothing;
\* it returns a value other than the one of the invalid-value path, except
\* for D3D11_BLEND_ZERO and D3D11_BLEND_OP_ADD, whose native values are
\* VK_BLEND_FACTOR_ZERO and VK_BLEND_OP_ADD themselves.
C6_LegalMapsWithoutDiagnostic ==
  \A c \in mapCall :
    /\ (c.fn = "DecodeBlendFactor" /\ c.value \in LegalBlendFactors)
         => /\ log = c.logBefore
            /\ (c.ret = VK_BLEND_FACTOR_ZERO) <=> (c.value = D3D11_BLEND_ZERO)
    /\ (c.fn = "DecodeBlendOp" /\ c.value \in LegalBlendOps)
         => /\ log = c.logBefore
            /\ (c.ret = VK_BLEND_OP_ADD) <=> (c.value = D3D11_BLEND_OP_ADD)

\* C6 witness: a call with the enumerator D3D11_BLEND_SRC_ALPHA_SAT for the
\* alpha channel, made after an earlier call has already logged a line.
C6_Witness ==
  \E c \in mapCall :
    /\ c.fn = "DecodeBlendFactor" /\ c.value = D3D11_BLEND_SRC_ALPHA_SAT /\ c.isAlpha
    /\ c.ret = VK_BLEND_FACTOR_SRC_ALPHA_SATURATE
    /\ Len(c.logBefore) = 1 /\ log = c.logBefore

\* C7: a call of DecodeBlendFactor with a value that is no enumerator returns
\* VK_BLEND_FACTOR_ZERO, a call of DecodeBlendOp with such a value returns
\* VK_BLEND_OP_ADD, and either call returns having logged exactly one line,
\* which carries the value.
C7_InvalidValueDefaultAndOneDiagnostic ==
  \A c \in mapCall :
    /\ (c.fn = "DecodeBlendFactor" /\ c.value \notin LegalBlendFactors)
         => /\ c.ret = VK_BLEND_FACTOR_ZERO
            /\ log = Append(c.logBefore,
                            [text |-> "D3D11: Invalid blend factor: ", value |-> c.value])
    /\ (c.fn = "DecodeBlendOp" /\ c.value \notin LegalBlendOps)
         => /\ c.ret = VK_BLEND_OP_ADD
            /\ log = Append(c.logBefore,
                            [text |-> "D3D11: Invalid blend op: ", value |-> c.value])

\* C7 witness: a call of DecodeBlendOp with the value 6, one past
\* D3D11_BLEND_OP_MAX, made when the log already held a line.
C7_Witness ==
  \E c \in mapCall :
    /\ c.fn = "DecodeBlendOp" /\ c.value = D3D11_BLEND_OP_MAX + 1
    /\ c.ret = VK_BLEND_OP_ADD
    /\ Len(c.logBefore) = 1 /\ Len(log) = 2 /\ log[2].value = c.value

\* C8: D3D11_BLEND_BLEND_FACTOR and D3D11_BLEND_INV_BLEND_FACTOR decode to the
\* constant-colour forms with isAlpha = FALSE and to the different
\* constant-alpha forms with isAlpha = TRUE; so in every resolved mode a
\* constant source factor gives the colour form in colorSrcFactor and
\* colorDstFactor and the alpha form in alphaSrcFactor and alphaDstFactor.
C8_ConstantFactorByChannel ==
  /\ DecodeBlendFactor(D3D11_BLEND_BLEND_FACTOR, FALSE).ret = VK_BLEND_FACTOR_CONSTANT_COLOR
  /\ DecodeBlendFactor(D3D11_BLEND_BLEND_FACTOR, TRUE).ret = VK_BLEND_FACTOR_CONSTANT_ALPHA
  /\ DecodeBlendFactor(D3D11_BLEND_INV_BLEND_FACTOR, FALSE).ret
       = VK_BLEND_FACTOR_ONE_MINUS_CONSTANT_COLOR
  /\ DecodeBlendFactor(D3D11_BLEND_INV_BLEND_FACTOR, TRUE).ret
       = VK_BLEND_FACTOR_ONE_MINUS_CONSTANT_ALPHA
  /\ \A f \in {D3D11_BLEND_BLEND_FACTOR, D3D11_BLEND_INV_BLEND_FACTOR} :
       DecodeBlendFactor(f, FALSE).ret # DecodeBlendFactor(f, TRUE).ret
  /\ constructed =>
       \A i \in Slots :
         LET rt == IF ctorDesc.IndependentBlendEnable
                     THEN ctorDesc.RenderTarget[i] ELSE ctorDesc.RenderTarget[0]
             mode == m_blendModes[i]
         IN  /\ rt.SrcBlend = D3D11_BLEND_BLEND_FACTOR
                  => mode.colorSrcFactor = VK_BLEND_FACTOR_CONSTANT_COLOR
             /\ rt.SrcBlend = D3D11_BLEND_INV_BLEND_FACTOR
                  => mode.colorSrcFactor = VK_BLEND_FACTOR_ONE_MINUS_CONSTANT_COLOR
             /\ rt.DestBlend = D3D11_BLEND_BLEND_FACTOR
                  => mode.colorDstFactor = VK_BLEND_FACTOR_CONSTANT_COLOR
             /\ rt.DestBlend = D3D11_BLEND_INV_BLEND_FACTOR
                  => mode.colorDstFactor = VK_BLEND_FACTOR_ONE_MINUS_CONSTANT_COLOR
             /\ rt.SrcBlendAlpha = D3D11_BLEND_BLEND_FACTOR
                  => mode.alphaSrcFactor = VK_BLEND_FACTOR_CONSTANT_ALPHA
             /\ rt.SrcBlendAlpha = D3D11_BLEND_INV_BLEND_FACTOR
                  => mode.alphaSrcFactor = VK_BLEND_FACTOR_ONE_MINUS_CONSTANT_ALPHA
             /\ rt.DestBlendAlpha = D3D11_BLEND_BLEND_FACTOR
                  => mode.alphaDstFactor = VK_BLEND_FACTOR_CONSTANT_ALPHA
             /\ rt.DestBlendAlpha = D3D11_BLEND_INV_BLEND_FACTOR
                  => mode.alphaDstFactor = VK_BLEND_FACTOR_ONE_MINUS_CONSTANT_ALPHA

\* C8 witness: an independent-blend object one slot of which was given the
\* constant factor as colour and as alpha source factor and the inverse
\* constant factor as colour and as alpha destination factor.
C8_Witness ==
  /\ constructed /\ ctorDesc.IndependentBlendEnable
  /\ \E i \in Slots \ {0} :
       /\ ctorDesc.RenderTarget[i].SrcBlend = D3D11_BLEND_BLEND_FACTOR
       /\ ctorDesc.RenderTarget[i].SrcBlendAlpha = D3D11_BLEND_BLEND_FACTOR
       /\ ctorDesc.RenderTarget[i].DestBlend = D3D11_BLEND_INV_BLEND_FACTOR
       /\ ctorDesc.RenderTarget[i].DestBlendAlpha = D3D11_BLEND_INV_BLEND_FACTOR
       /\ m_blendModes[i].colorSrcFactor # m_blendModes[i].alphaSrcFactor
       /\ m_blendModes[i].colorDstFactor # m_blendModes[i].alphaDstFactor

\* C9: the descriptor GetDesc hands out, and the one the object retains, is
\* the descriptor the constructor was given, field for field, whether
\* independent blend is enabled or not and whatever values it holds, in every
\* state (after any binds and GetDesc calls).
C9_GetDescReturnsConstructionInput ==
  /\ constructed => m_desc = ctorDesc
  /\ \A d \in pDesc : d = ctorDesc

\* C9 witness: GetDesc has been called, after a finished bind, on an object
\* with independent blend disabled whose descriptor holds in its last render
\* target a record other than render target 0, with values that are no
\* enumerators.
C9_Witness ==
  /\ pDesc = { ctorDesc }
  /\ constructed /\ ~ctorDesc.IndependentBlendEnable
  /\ ctorDesc.RenderTarget[NumTargets - 1] # ctorDesc.RenderTarget[0]
  /\ InvalidFieldCount(ctorDesc.RenderTarget[NumTargets - 1]) > 0
  /\ \E t \in Threads : BindDone(t)

\* C10: the log holds nothing before construction and, from construction on,
\* exactly one line per invalid factor or op field of the effective record of
\* each of the 8 slots (binds and GetDesc add none).  With independent blend
\* disabled that is 8 lines per invalid field of RenderTarget[0], every
\* resolved mode is the decoding of RenderTarget[0], defaults included, and
\* RenderTarget[1..7] contribute neither a line nor a mode.
C10_DiagnosticsPerSlot ==
  /\ ~constructed => log = <<>>
  /\ constructed =>
       /\ Len(log) = InvalidFieldSum(ctorDesc, NumTargets)
       /\ ~ctorDesc.IndependentBlendEnable =>
            LET first == ctorDesc.RenderTarget[0]
            IN  /\ Len(log) = NumTargets * InvalidFieldCount(first)
                /\ \A i \in Slots :
                     /\ m_blendModes[i] = DecodeBlendMode(first).mode
                     /\ first.SrcBlend \notin LegalBlendFactors
                          => m_blendModes[i].colorSrcFactor = VK_BLEND_FACTOR_ZERO
                     /\ first.DestBlend \notin LegalBlendFactors
                          => m_blendModes[i].colorDstFactor = VK_BLEND_FACTOR_ZERO
                     /\ first.SrcBlendAlpha \notin LegalBlendFactors
                          => m_blendModes[i].alphaSrcFactor = VK_BLEND_FACTOR_ZERO
                     /\ first.DestBlendAlpha \notin LegalBlendFactors
                          => m_blendModes[i].alphaDstFactor = VK_BLEND_FACTOR_ZERO
                     /\ first.BlendOp \notin LegalBlendOps
                          => m_blendModes[i].colorBlendOp = VK_BLEND_OP_ADD
                     /\ first.BlendOpAlpha \notin LegalBlendOps
                          => m_blendModes[i].alphaBlendOp = VK_BLEND_OP_ADD

\* C10 witness: an object with independent blend disabled whose
\* RenderTarget[0] has 4 invalid fields, so 32 lines were logged, after a
\* finished bind.
C10_Witness ==
  /\ constructed /\ ~ctorDesc.IndependentBlendEnable
  /\ InvalidFieldCount(ctorDesc.RenderTarget[0]) = 4
  /\ Len(log) = 4 * NumTargets
  /\ m_blendModes[NumTargets - 1].colorBlendOp = VK_BLEND_OP_ADD
  /\ \E t \in Threads : BindDone(t)

=============================================================================
